---- MODULE Spec2Model ----
(***************************************************************************)
(* The conversation-stage classifier, stage sequencer, completion gate and *)
(* summary extractor of backend/app/api/nvc/__init__.py.                   *)
(*                                                                         *)
(* Messages are strings; keyword matching is Python's `kw in text`, i.e.   *)
(* substring containment on the lowercased text.                          *)
(***************************************************************************)
EXTENDS Integers, Sequences, FiniteSets, TLC

VARIABLES
    message,               \* the message under classification
    detected,              \* the stage detected for the message, "" before any call
    conversation_history,  \* the caller's history, grown by append only
    complete,              \* should_complete_conversation(conversation_history)
    summary,               \* outcome of generate_nvc_summary(conversation_history)
    extracted,             \* outcome of extract_user_content_from_conversation
    prompt,                \* the fields get_nvc_prompt put into its last prompt
    origin,                \* the label the sequencer run started from
    step,                  \* the sequencer's current label
    applied,               \* number of get_next_nvc_step applications since origin
    op,                    \* the operation that produced the current state
    api_key,               \* the environment's OPENAI_API_KEY, "" when unset
    request,               \* the ConversationRequest being handled
    llm,                   \* what the external service does with this request's calls
    response,              \* the endpoint's answer to the request
    llm_calls,             \* external requests issued while handling the request
    handed,                \* the histories handed to the gate, extractor and clarification check
    completed,             \* how the conversation's recorded turns were answered complete, "no" if none was
    answered_before,       \* the answer the caller got to this request when it sent it before
    request_history        \* request.conversation_history as the handler leaves it

endpoint_vars ==
    <<api_key, request, llm, response, llm_calls, handed, completed, answered_before,
      request_history>>

vars == <<message, detected, conversation_history, complete, summary, extracted, prompt,
          origin, step, applied, op, endpoint_vars>>

-----------------------------------------------------------------------------
(* Strings *)

UpperAlphabet == "ABCDEFGHIJKLMNOPQRSTUVWXYZ"
LowerAlphabet == "abcdefghijklmnopqrstuvwxyz"

\* str.lower() on the ASCII letters: upper-case letter |-> lower-case letter
LowerMap ==
    [c \in {SubSeq(UpperAlphabet, i, i) : i \in 1..Len(UpperAlphabet)} |->
        LET i == CHOOSE j \in 1..Len(UpperAlphabet) : SubSeq(UpperAlphabet, j, j) = c
        IN  SubSeq(LowerAlphabet, i, i)]

\* str.lower() on one character
LowerChar(c) == IF c \in DOMAIN LowerMap THEN LowerMap[c] ELSE c

RECURSIVE LowerFrom(_, _)
LowerFrom(s, i) ==
    IF i > Len(s) THEN "" ELSE LowerChar(SubSeq(s, i, i)) \o LowerFrom(s, i + 1)

\* str.lower()
Lower(s) == LowerFrom(s, 1)

\* Python's `k in s` for strings: k occurs in s as a contiguous substring
Contains(s, k) ==
    \E i \in 1..(Len(s) - Len(k) + 1) : SubSeq(s, i, i + Len(k) - 1) = k

\* the characters str.strip() removes
Whitespace == {" ", "\t", "\n", "\r"}

RECURSIVE StripLeft(_)
StripLeft(s) ==
    IF Len(s) > 0 /\ SubSeq(s, 1, 1) \in Whitespace
    THEN StripLeft(SubSeq(s, 2, Len(s))) ELSE s

RECURSIVE StripRight(_)
StripRight(s) ==
    IF Len(s) > 0 /\ SubSeq(s, Len(s), Len(s)) \in Whitespace
    THEN StripRight(SubSeq(s, 1, Len(s) - 1)) ELSE s

\* str.strip()
Strip(s) == StripRight(StripLeft(s))

RECURSIVE JoinFrom(_, _)
JoinFrom(h, i) ==
    IF i > Len(h) THEN ""
    ELSE IF i = Len(h) THEN h[i]
    ELSE h[i] \o " " \o JoinFrom(h, i + 1)

\* " ".join(h)
Join(h) == JoinFrom(h, 1)

\* any(word in text for word in words)
AnyIn(words, text) == \E i \in 1..Len(words) : Contains(text, words[i])

\* sum(1 for word in words if word in text)
CountIn(words, text) == Cardinality({i \in 1..Len(words) : Contains(text, words[i])})

-----------------------------------------------------------------------------
(* Stage classifier: detect_current_nvc_step *)

observation_words ==
    <<"noticed", "saw", "heard", "observed", "happened", "said", "did", "when", "during">>

feeling_words ==
    <<"feel", "feeling", "felt", "frustrated", "angry", "sad", "excited", "worried",
      "grateful", "disappointed", "hurt", "confused", "overwhelmed", "peaceful", "hopeful">>

need_words ==
    <<"need", "value", "important", "matter", "respect", "understanding", "connection",
      "safety", "autonomy", "recognition", "support", "honesty", "trust">>

request_words ==
    <<"would you", "could you", "please", "willing", "appreciate", "request", "ask">>

\* the keys of the scores dict, in insertion order
score_keys == <<"observation", "feeling", "need", "request">>

\* Mutant: the feeling score is counted over the need vocabulary.
ScoresFeelingFromNeeds(message_lower) ==
    <<CountIn(observation_words, message_lower),
      CountIn(need_words, message_lower),
      CountIn(need_words, message_lower),
      CountIn(request_words, message_lower)>>

\* the scores dict of a lowercased message, as the sequence of its values
Scores(message_lower) ==
    <<CountIn(observation_words, message_lower),
      CountIn(feeling_words, message_lower),
      CountIn(need_words, message_lower),
      CountIn(request_words, message_lower)>>

\* max(values)
RECURSIVE MaxValueFrom(_, _, _)
MaxValueFrom(values, i, best) ==
    IF i > Len(values) THEN best
    ELSE MaxValueFrom(values, i + 1, IF values[i] > best THEN values[i] ELSE best)

MaxValue(values) == MaxValueFrom(values, 2, values[1])

\* max(items, key=...): the running best is replaced only by a strictly larger key
RECURSIVE MaxIndexFrom(_, _, _)
MaxIndexFrom(values, i, best) ==
    IF i > Len(values) THEN best
    ELSE MaxIndexFrom(values, i + 1, IF values[i] > values[best] THEN i ELSE best)

\* Mutant: the running best is also replaced by an equal key (last maximum wins).
RECURSIVE MaxIndexLastFrom(_, _, _)
MaxIndexLastFrom(values, i, best) ==
    IF i > Len(values) THEN best
    ELSE MaxIndexLastFrom(values, i + 1, IF values[i] >= values[best] THEN i ELSE best)

MaxIndexLastWins(values) == MaxIndexLastFrom(values, 2, 1)

MaxIndex(values) == MaxIndexFrom(values, 2, 1)

\* Mutant: a message without any hit is classified as observation.
detect_defaults_to_observation(m) ==
    LET scores == Scores(Lower(m))
    IN  score_keys[MaxIndex(scores)]

detect_current_nvc_step(m) ==
    LET scores == Scores(Lower(m))
    IN  IF MaxValue(scores) = 0 THEN "starting"
        ELSE score_keys[MaxIndex(scores)]

-----------------------------------------------------------------------------
(* Stage sequencer: get_next_nvc_step *)

step_sequence == <<"observation", "feeling", "need", "request">>

\* list.index
IndexOf(seq, x) == CHOOSE i \in 1..Len(seq) : seq[i] = x /\ \A j \in 1..(i - 1) : seq[j] # x

\* Mutant: the sequence wraps around after its last step.
get_next_wraps_around(current_step) ==
    IF current_step = "starting" THEN "observation"
    ELSE IF \E i \in 1..Len(step_sequence) : step_sequence[i] = current_step
    THEN step_sequence[(IndexOf(step_sequence, current_step) % Len(step_sequence)) + 1]
    ELSE "request"

\* Mutant: a label outside the sequence restarts it.
get_next_restarts_on_unknown(current_step) ==
    IF \E i \in 1..(Len(step_sequence) - 1) : step_sequence[i] = current_step
    THEN step_sequence[IndexOf(step_sequence, current_step) + 1]
    ELSE IF current_step = "request" THEN "request"
    ELSE "observation"

\* Mutant: the step expressed by the message is returned, not the one after it.
get_next_returns_current(current_step) ==
    IF current_step = "starting" THEN "starting"
    ELSE IF \E i \in 1..Len(step_sequence) : step_sequence[i] = current_step
    THEN current_step
    ELSE "request"

get_next_nvc_step(current_step) ==
    IF current_step = "starting" THEN "observation"
    ELSE IF \E i \in 1..Len(step_sequence) : step_sequence[i] = current_step
    THEN LET current_index == IndexOf(step_sequence, current_step)
         IN  IF current_index < Len(step_sequence)
             THEN step_sequence[current_index + 1]
             ELSE "request"
    ELSE "request"

-----------------------------------------------------------------------------
(* Completion gate: should_complete_conversation *)

completion_phrases ==
    <<"show me the summary", "i'm ready to complete", "can we finish",
      "give me the nvc summary", "i'm done", "that's enough",
      "create my nvc statement", "show me my nvc framework",
      "no more to discuss", "nothing else", "i'm satisfied",
      "i am complete", "i am done", "print the summary",
      "please print the summary", "generate the summary",
      "create the summary", "finish this", "wrap this up",
      "complete", "summary please", "give me my summary">>

gate_observation_words == <<"noticed", "saw", "heard", "observed">>
gate_feeling_words == <<"feel", "feeling", "frustrated", "sad", "angry">>
gate_need_words == <<"need", "value", "respect", "understanding">>

specific_request_phrases ==
    <<"would you be willing", "could you please", "would you please",
      "i request", "i ask that", "could we", "will you">>

feeling_count_words ==
    <<"feel", "feeling", "frustrated", "sad", "angry", "excited", "worried", "grateful">>

need_count_words ==
    <<"need", "value", "respect", "understanding", "connection", "autonomy", "safety">>

\* Mutant: the completion phrases are looked for in every message.
ExplicitCompletionAnywhere(history) ==
    \E i \in 1..Len(history) : AnyIn(completion_phrases, Lower(history[i]))

\* the explicit-completion short-circuit on the last message
ExplicitCompletion(history) ==
    /\ history # <<>>
    /\ AnyIn(completion_phrases, Lower(history[Len(history)]))

\* Mutant: any generic request word counts as the request.
HasAllEvidenceGenericRequest(history) ==
    LET all_messages == Lower(Join(history))
        has_observation == AnyIn(gate_observation_words, all_messages)
        has_feeling == AnyIn(gate_feeling_words, all_messages)
        has_need == AnyIn(gate_need_words, all_messages)
        has_request == AnyIn(request_words, all_messages)
        feeling_count == CountIn(feeling_count_words, all_messages)
        need_count == CountIn(need_count_words, all_messages)
        has_depth == feeling_count >= 2 /\ need_count >= 2
    IN  has_observation /\ has_feeling /\ has_need /\ has_request /\ has_depth

\* the keyword evidence required of the whole history
HasAllEvidence(history) ==
    LET all_messages == Lower(Join(history))
        has_observation == AnyIn(gate_observation_words, all_messages)
        has_feeling == AnyIn(gate_feeling_words, all_messages)
        has_need == AnyIn(gate_need_words, all_messages)
        has_specific_request == AnyIn(specific_request_phrases, all_messages)
        feeling_count == CountIn(feeling_count_words, all_messages)
        need_count == CountIn(need_count_words, all_messages)
        has_depth == feeling_count >= 2 /\ need_count >= 2
    IN  has_observation /\ has_feeling /\ has_need /\ has_specific_request /\ has_depth

\* Mutant: the length threshold of an earlier version.
should_complete_short_threshold(history) ==
    IF ExplicitCompletion(history) THEN TRUE
    ELSE IF Len(history) < 4 THEN FALSE
    ELSE HasAllEvidence(history)

\* Mutant: the length threshold is off by one.
should_complete_threshold_inclusive(history) ==
    IF ExplicitCompletion(history) THEN TRUE
    ELSE IF Len(history) <= 10 THEN FALSE
    ELSE HasAllEvidence(history)

\* Mutant: the evidence completes a history of exactly ten messages.
should_complete_at_threshold_only(history) ==
    IF ExplicitCompletion(history) THEN TRUE
    ELSE IF Len(history) # 10 THEN FALSE
    ELSE HasAllEvidence(history)

\* Mutant: the evidence is looked for in the last ten messages only.
should_complete_recent_window(history) ==
    IF ExplicitCompletion(history) THEN TRUE
    ELSE IF Len(history) < 10 THEN FALSE
    ELSE HasAllEvidence(SubSeq(history, Len(history) - 9, Len(history)))

should_complete_conversation(history) ==
    IF ExplicitCompletion(history) THEN TRUE
    ELSE IF Len(history) < 10 THEN FALSE
    ELSE HasAllEvidence(history)

-----------------------------------------------------------------------------
(* Summary extractor: extract_user_content_from_conversation,              *)
(* generate_nvc_summary                                                    *)

extract_observation_words == <<"noticed", "saw", "heard", "didn't", "said", "did">>
extract_feeling_words ==
    <<"feel", "feeling", "frustrated", "sad", "angry", "unheard", "unappreciated">>
extract_need_words == <<"need", "want", "value", "respect", "recognition", "understanding">>
extract_request_phrases == <<"would you", "could you", "please", "willing">>

\* [msg for msg in msgs if any(word in msg.lower() for word in words)]
RECURSIVE MatchingFrom(_, _, _)
MatchingFrom(msgs, words, i) ==
    IF i > Len(msgs) THEN <<>>
    ELSE (IF AnyIn(words, Lower(msgs[i])) THEN <<msgs[i]>> ELSE <<>>)
         \o MatchingFrom(msgs, words, i + 1)

Matching(msgs, words) == MatchingFrom(msgs, words, 1)

\* for i in range(0, len(history), 2): user_messages.append(history[i])
RECURSIVE UserMessagesFrom(_, _)
UserMessagesFrom(history, i) ==
    IF i > Len(history) THEN <<>>
    ELSE <<history[i]>> \o UserMessagesFrom(history, i + 2)

UserMessages(history) == UserMessagesFrom(history, 1)

\* the names bound in the body of extract_user_content_from_conversation
extract_locals ==
    {"conversation_history", "user_messages", "i", "all_user_text", "observations",
     "msg", "feelings", "needs", "requests"}

\* the names bound at module level
module_globals ==
    {"APIRouter", "HTTPException", "BaseModel", "List", "Optional", "json", "os",
     "OpenAI", "logger", "router", "ConversationRequest", "AuthRequest",
     "ConversationResponse", "validate_credentials", "is_authenticated",
     "get_openai_client", "get_nvc_prompt", "get_nvc_vocabulary_for_step",
     "analyze_user_context", "generate_contextual_suggestions",
     "get_generic_suggestions", "detect_nvc_step_with_ai", "detect_current_nvc_step",
     "get_next_nvc_step", "ai_should_complete_conversation",
     "check_request_clarification_needed", "should_complete_conversation",
     "extract_user_content_from_conversation", "generate_nvc_summary", "authenticate",
     "nvc_conversation", "get_feelings_list", "get_needs_list", "get_nvc_examples"}

\* The returned dict literal reads the name `context`, which the function never
\* binds: evaluating it raises NameError unless a module-level `context` exists.
extract_user_content_from_conversation(history) ==
    LET user_messages == UserMessages(history)
    IN  IF "context" \in extract_locals \cup module_globals
        THEN [raised |-> "",
              observations |-> Matching(user_messages, extract_observation_words),
              feelings |-> Matching(user_messages, extract_feeling_words),
              needs |-> Matching(user_messages, extract_need_words),
              requests |-> Matching(user_messages, extract_request_phrases)]
        ELSE [raised |-> "NameError",
              observations |-> <<>>, feelings |-> <<>>, needs |-> <<>>, requests |-> <<>>]

\* content[key][0] if content[key] else fallback
FirstOr(list, fallback) == IF list # <<>> THEN list[1] ELSE fallback

\* The four texts substituted into the summary template; the exception of the
\* extractor propagates.
generate_nvc_summary(history) ==
    LET content == extract_user_content_from_conversation(history)
    IN  IF content.raised # ""
        THEN [raised |-> content.raised,
              observation_text |-> "", feeling_text |-> "",
              need_text |-> "", request_text |-> ""]
        ELSE [raised |-> "",
              observation_text |-> FirstOr(content.observations, "the situation that occurred"),
              feeling_text |-> FirstOr(content.feelings, "I feel concerned"),
              need_text |-> FirstOr(content.needs, "I need understanding"),
              request_text |-> FirstOr(content.requests,
                                       "Would you be willing to work with me on this")]


-----------------------------------------------------------------------------
(* The external client: get_openai_client, detect_nvc_step_with_ai *)

\* Mutant: the placeholder key counts as a key.
get_openai_client_any_key(key) == key # ""

\* `api_key and api_key != "your_openai_api_key_here"`: whether a client is
\* returned; os.getenv gives None for an unset variable, modelled as "".
get_openai_client(key) == key # "" /\ key # "your_openai_api_key_here"

valid_ai_steps == <<"observation", "feeling", "need", "request">>

\* Mutant: the external label is returned without validation.
detect_with_ai_unvalidated(m, key, outcome) ==
    IF ~get_openai_client(key) THEN detect_current_nvc_step(m)
    ELSE IF outcome.kind # "text" THEN detect_current_nvc_step(m)
    ELSE Lower(Strip(outcome.content))

\* The external call either raises (kind "raise"), answers without content
\* (kind "none": content is None and .strip() raises AttributeError) or answers
\* with a text.  Every exception of the body is caught and answered by the
\* keyword classifier.
detect_nvc_step_with_ai(m, key, outcome) ==
    LET body ==
            IF ~get_openai_client(key)
            THEN [raised |-> FALSE, value |-> detect_current_nvc_step(m)]
            ELSE IF outcome.kind = "raise" \/ outcome.kind = "none"
            THEN [raised |-> TRUE, value |-> ""]
            ELSE LET ai_step == Lower(Strip(outcome.content))
                 IN  IF \E i \in 1..Len(valid_ai_steps) : valid_ai_steps[i] = ai_step
                     THEN [raised |-> FALSE, value |-> ai_step]
                     ELSE [raised |-> FALSE, value |-> detect_current_nvc_step(m)]
    IN  IF body.raised THEN detect_current_nvc_step(m) ELSE body.value

\* Mutant: a failed step-detection call is issued once more.
detect_with_ai_calls_twice(key) == IF get_openai_client(key) THEN 2 ELSE 0

\* external requests issued by one call of detect_nvc_step_with_ai
detect_with_ai_calls(key) == IF get_openai_client(key) THEN 1 ELSE 0

RECURSIVE JoinWithFrom(_, _, _)
\* sep.join(parts[i-1:])
JoinWithFrom(sep, parts, i) ==
    IF i > Len(parts) THEN ""
    ELSE IF i = Len(parts) THEN parts[i]
    ELSE parts[i] \o sep \o JoinWithFrom(sep, parts, i + 1)

JoinWith(sep, parts) == JoinWithFrom(sep, parts, 1)

\* conversation_history[-3:]
LastThreeMessages(history) ==
    SubSeq(history, IF Len(history) > 3 THEN Len(history) - 2 ELSE 1, Len(history))

\* the prompt's own progress check over the joined, lowercased history
steps_covered(history) ==
    LET all_messages == Lower(Join(history))
    IN  (IF AnyIn(<<"noticed", "saw", "heard", "observed">>, all_messages)
         THEN <<"observation">> ELSE <<>>)
        \o (IF AnyIn(<<"feel", "feeling", "frustrated", "sad">>, all_messages)
            THEN <<"feeling">> ELSE <<>>)
        \o (IF AnyIn(<<"need", "value", "respect">>, all_messages)
            THEN <<"need">> ELSE <<>>)
        \o (IF AnyIn(<<"would you", "could", "request">>, all_messages)
            THEN <<"request">> ELSE <<>>)

\* the variable parts of the prompt; the context argument is not used by the code
get_nvc_prompt(m, history) ==
    IF Len(history) > 1
    THEN [message |-> m,
          history_text |->
              "Conversation so far: " \o JoinWith(" | ", LastThreeMessages(history)),
          progress_note |->
              "Steps covered so far: " \o JoinWith(", ", steps_covered(history)) \o ". ",
          directive |->
              IF Len(steps_covered(history)) >= 3
              THEN "IMPORTANT: This conversation has covered most NVC steps. "
                       \o "Your goal is to help complete their NVC statement and "
                       \o "provide a clear action plan. Move toward resolution."
              ELSE "Focus on moving to the next uncovered step: "
                       \o <<"observation", "feeling", "need", "request">>
                              [Len(steps_covered(history)) + 1]
                       \o "."]
    ELSE [message |-> m,
          history_text |-> "",
          progress_note |-> "This is early in the conversation. ",
          directive |->
              "Start by identifying what NVC step they're expressing "
                  \o "and guide them through the sequence."]

\* Mutant: the external opinion is asked for histories of any length.
ai_should_complete_any_length(history, key, outcome) ==
    IF ~get_openai_client(key) THEN should_complete_conversation(history)
    ELSE IF outcome.kind # "text" THEN should_complete_conversation(history)
    ELSE IF Lower(Strip(outcome.content)) = "true" THEN TRUE
    ELSE IF Lower(Strip(outcome.content)) = "false" THEN FALSE
    ELSE should_complete_conversation(history)

\* The external call raises, answers without content (.strip() raises) or
\* answers with a text; every exception of the body is caught and answered by
\* the gate.
ai_should_complete_conversation(history, key, outcome) ==
    LET body ==
            IF ~get_openai_client(key) \/ Len(history) < 8
            THEN [raised |-> FALSE, value |-> should_complete_conversation(history)]
            ELSE IF outcome.kind = "raise" \/ outcome.kind = "none"
            THEN [raised |-> TRUE, value |-> FALSE]
            ELSE LET ai_result == Lower(Strip(outcome.content))
                 IN  IF ai_result = "true" THEN [raised |-> FALSE, value |-> TRUE]
                     ELSE IF ai_result = "false" THEN [raised |-> FALSE, value |-> FALSE]
                     ELSE [raised |-> FALSE,
                           value |-> should_complete_conversation(history)]
    IN  IF body.raised THEN should_complete_conversation(history) ELSE body.value

\* external requests issued by one call of ai_should_complete_conversation
ai_should_complete_calls(history, key) ==
    IF get_openai_client(key) /\ Len(history) >= 8 THEN 1 ELSE 0

-----------------------------------------------------------------------------
(* Bounds of the explored inputs *)

MaxHist == 11    \* longest conversation history
MaxWords == 3    \* most words in a classified message
MaxApply == 6    \* most consecutive applications of the sequencer

\* The messages a caller sends, in the order a conversation works through them.
\* The last one is the filler; it holds no keyword of any list.
Script ==
    <<"I saw him",          \* observation
      "I feel sad",         \* two feeling words
      "i need respect",     \* two need words
      "Will you help",      \* an actionable request phrase, no generic request word
      "sad value please",   \* one feeling word, one need word, a generic request word
      "I'm done",           \* a completion phrase
      "ok">>

Filler == Script[Len(Script)]

Messages == {Script[i] : i \in 1..Len(Script)}

Pos(m) == CHOOSE i \in 1..Len(Script) : Script[i] = m

\* A history that follows the script: a selection of its messages in script
\* order, each at most once, then any number of fillers.
Ordered(history) ==
    \A i \in 1..(Len(history) - 1) :
        \/ Pos(history[i]) < Pos(history[i + 1])
        \/ history[i] = Filler /\ history[i + 1] = Filler

\* The words classified messages are made of.
Words == {"I", "saw", "Feeling", "sad", "needed", "please", "when", "ok"}

\* Every message of at most MaxWords words, the empty message included.
MessageInputs == {Join(ws) : ws \in UNION {[1..k -> Words] : k \in 0..MaxWords}}

\* The labels handed to the sequencer: the six stages and labels outside them.
StepInputs ==
    {"starting", "observation", "feeling", "need", "request", "complete",
     "", "Observation", "FEELING", "Need", "requests", "feelings", "needs",
     "observe", "start", "done", "summary", "unknown"}

NoSummary ==
    [raised |-> "", observation_text |-> "", feeling_text |-> "",
     need_text |-> "", request_text |-> ""]

\* The values of OPENAI_API_KEY: unset, the placeholder, a real key.
ApiKeys == {"", "your_openai_api_key_here", "sk-test"}

Raises == [kind |-> "raise", content |-> ""]
AnswersNone == [kind |-> "none", content |-> ""]
Answers(text) == [kind |-> "text", content |-> text]

\* What the external service may do with the step-detection call.
DetectOutcomes ==
    {Raises, AnswersNone} \cup
    {Answers(text) : text \in
        {"observation", "feeling", "need", "request", " Need\n", "FEELING",
         "Request.", "starting", "complete", "", "feelings", "the need step"}}

\* no request handled yet
NoRequest ==
    [message |-> "", email |-> "", password |-> "", conversation_history |-> <<>>]
NoOutcome == [kind |-> "unused", content |-> ""]
NoLlm == [chat |-> NoOutcome, detect |-> NoOutcome, completion |-> NoOutcome]
NoneSummary == [kind |-> "none", text |-> "", parts |-> NoSummary]
NoResponse ==
    [status |-> 0, current_step |-> "", guidance |-> "",
     suggested_responses |-> <<>>, vocabulary_options |-> <<>>,
     conversation_complete |-> FALSE, nvc_summary |-> NoneSummary]
NoHanded == [gate |-> <<>>, extract |-> <<>>, clarify |-> <<>>]
NoAnswer ==
    [sent |-> FALSE, api_key |-> "", current_step |-> "",
     conversation_complete |-> FALSE]

EndpointIdle ==
    /\ api_key = ""
    /\ request = NoRequest
    /\ llm = NoLlm
    /\ response = NoResponse
    /\ llm_calls = 0
    /\ handed = NoHanded
    /\ completed = "no"
    /\ answered_before = NoAnswer
    /\ request_history = <<>>

NoContent ==
    [raised |-> "", observations |-> <<>>, feelings |-> <<>>, needs |-> <<>>,
     requests |-> <<>>]

NoPrompt == [message |-> "", history_text |-> "", progress_note |-> "", directive |-> ""]

-----------------------------------------------------------------------------
(* The conversation endpoint: validate_credentials, nvc_conversation *)

\* Mutant: one address is let in with any password.
validate_credentials_known_email(email, password) ==
    password = "NVCRocks!" \/ email = "admin@example.com"

\* the email is not looked at
validate_credentials(email, password) == password = "NVCRocks!"

request_indicators == <<"would you", "could you", "please", "willing", "request">>

clarification_keywords ==
    <<"why", "how", "what if", "when", "where", "realistic", "workable">>

\* conversation_history[-3:]
LastThree(history) ==
    SubSeq(history, IF Len(history) > 3 THEN Len(history) - 2 ELSE 1, Len(history))

check_request_clarification_needed(history) ==
    IF Len(history) < 3 THEN FALSE
    ELSE LET recent_messages == Lower(Join(LastThree(history)))
         IN  /\ AnyIn(request_indicators, recent_messages)
             /\ ~AnyIn(clarification_keywords, recent_messages)

\* Mutant: the refinement is given for every step once clarification is needed.
step_guidance_refines_any_step(needs_request_clarification, next_step) ==
    IF needs_request_clarification
    THEN "Refining your request - making it specific and considerate."
    ELSE IF next_step = "observation"
         THEN "Great start with observation! Let's get more specific facts."
    ELSE IF next_step = "feeling"
         THEN "You're expressing feelings - let's explore them deeper."
    ELSE IF next_step = "need"
         THEN "You're identifying your needs - let's explore what meeting them would mean."
    ELSE "You're making a request - let's make it as effective as possible."

\* guidance of step_responses.get(next_step, default): the clarification table
\* holds the key "request" only
step_guidance(needs_request_clarification, next_step) ==
    IF needs_request_clarification
    THEN IF next_step = "request"
         THEN "Refining your request - making it specific and considerate."
         ELSE "NVC helps us connect with needs and find solutions."
    ELSE IF next_step = "observation"
         THEN "Great start with observation! Let's get more specific facts."
    ELSE IF next_step = "feeling"
         THEN "You're expressing feelings - let's explore them deeper."
    ELSE IF next_step = "need"
         THEN "You're identifying your needs - let's explore what meeting them would mean."
    ELSE IF next_step = "request"
         THEN "You're making a request - let's make it as effective as possible."
    ELSE "NVC helps us connect with needs and find solutions."

ai_simple_summary ==
    "## Your NVC Summary\n\nYou've successfully worked through the four steps of NVC:\n\n1. **Observation**: What you noticed\n2. **Feelings**: How you felt about it\n3. **Needs**: What you value and need\n4. **Request**: What you asked for\n\nUse this structure in your conversation!"

fallback_simple_summary ==
    "## Your NVC Summary\n\nYou've successfully worked through NVC!"

\* The answer of a request the gate completes: the templated summary, or the
\* simple one when generate_nvc_summary raises.
CompletionResponse(history, simple_guidance, simple_summary) ==
    LET nvc_summary == generate_nvc_summary(history)
    IN  IF nvc_summary.raised = ""
        THEN [status |-> 200, current_step |-> "complete",
              guidance |-> "Conversation complete - here's your NVC summary",
              suggested_responses |-> <<>>, vocabulary_options |-> <<>>,
              conversation_complete |-> TRUE,
              nvc_summary |-> [kind |-> "templated", text |-> "", parts |-> nvc_summary]]
        ELSE [status |-> 200, current_step |-> "complete",
              guidance |-> simple_guidance,
              suggested_responses |-> <<>>, vocabulary_options |-> <<>>,
              conversation_complete |-> TRUE,
              nvc_summary |-> [kind |-> "simple", text |-> simple_summary,
                               parts |-> NoSummary]]

\* vocabularies.get(step, [])
get_nvc_vocabulary_for_step(nvc_step) ==
    IF nvc_step = "observation"
    THEN <<"I noticed...", "I saw...", "I heard...", "What happened was...",
           "The facts are...", "I observed...", "During the meeting...">>
    ELSE IF nvc_step = "feeling"
    THEN <<"frustrated", "disappointed", "excited", "grateful", "confused",
           "worried", "hopeful", "sad", "angry", "peaceful", "overwhelmed", "curious">>
    ELSE IF nvc_step = "need"
    THEN <<"respect", "understanding", "connection", "autonomy", "safety",
           "recognition", "collaboration", "honesty", "support", "trust", "clarity",
           "contribution">>
    ELSE IF nvc_step = "request"
    THEN <<"Would you be willing to...", "Could we...", "I would appreciate if...",
           "Would it work for you to...", "Could you please...",
           "I'd like to request...">>
    ELSE <<>>

\* Mutant: the request step has no suggestions of its own.
get_generic_suggestions_without_request(nvc_step) ==
    IF nvc_step = "observation"
    THEN <<"I noticed that...", "What I observed was...",
           "The situation I want to discuss is...">>
    ELSE IF nvc_step = "feeling"
    THEN <<"I feel frustrated about this", "I'm feeling unheard",
           "I feel concerned about...">>
    ELSE IF nvc_step = "need"
    THEN <<"I need respect and understanding", "I value honest communication",
           "I need to feel heard and valued">>
    ELSE <<>>

\* suggestions.get(step, [])
get_generic_suggestions(nvc_step) ==
    IF nvc_step = "observation"
    THEN <<"I noticed that...", "What I observed was...",
           "The situation I want to discuss is...">>
    ELSE IF nvc_step = "feeling"
    THEN <<"I feel frustrated about this", "I'm feeling unheard",
           "I feel concerned about...">>
    ELSE IF nvc_step = "need"
    THEN <<"I need respect and understanding", "I value honest communication",
           "I need to feel heard and valued">>
    ELSE IF nvc_step = "request"
    THEN <<"Would you be willing to...", "Could we work together to...",
           "I'd appreciate if we could...">>
    ELSE <<>>

\* nvc_summary and conversation_complete keep their defaults
StepResponse(next_step, guidance) ==
    [status |-> 200, current_step |-> next_step, guidance |-> guidance,
     suggested_responses |-> get_generic_suggestions(next_step),
     vocabulary_options |-> get_nvc_vocabulary_for_step(next_step),
     conversation_complete |-> FALSE, nvc_summary |-> NoneSummary]

Unauthorized ==
    [status |-> 401, current_step |-> "", guidance |-> "",
     suggested_responses |-> <<>>, vocabulary_options |-> <<>>,
     conversation_complete |-> FALSE, nvc_summary |-> NoneSummary]

\* What one pass over the handler's AI path or rule-based path leaves behind:
\* whether it returned, the answer, the external requests issued, the lists
\* handed to the gate, the extractor and the clarification check, the outcomes
\* consumed, and request.conversation_history as the pass leaves it.
Pass(returned, answer, calls, gate, extract, clarify, chat, detect, held, current_step) ==
    [returned |-> returned, response |-> answer, llm_calls |-> calls,
     handed |-> [gate |-> gate, extract |-> extract, clarify |-> clarify],
     llm |-> [chat |-> chat, detect |-> detect, completion |-> NoOutcome],
     request_history |-> held,
     current_step |-> current_step]

\* `request.conversation_history or []` followed by `.append(request.message)`:
\* a non-empty list of the request is the list appended to, an empty one is
\* replaced by a new list and stays empty.
HeldAfterAppend(h, m) == IF h = <<>> THEN <<>> ELSE Append(h, m)

\* Mutant: an exception of the AI path leaves the handler as an error.
Propagate(history, held, chat) ==
    Pass(TRUE,
         [status |-> 500, current_step |-> "", guidance |-> "",
          suggested_responses |-> <<>>, vocabulary_options |-> <<>>,
          conversation_complete |-> FALSE, nvc_summary |-> NoneSummary],
         1, <<history>>, <<>>, <<>>, chat, NoOutcome, held, "")

\* `except Exception: pass`: the AI path is left without an answer
FallThrough(history, held, chat) ==
    Pass(FALSE, NoResponse, 1, <<history>>, <<>>, <<>>, chat, NoOutcome, held, "")

\* The AI path, taken when a client is configured.  The chat call raises, or
\* answers without content so that .strip() raises, or answers with a text.
ai_path(h, m, key, chat, detect) ==
    LET history == Append(h, m)
        held == HeldAfterAppend(h, m)
    IN  IF should_complete_conversation(history)
        THEN Pass(TRUE,
                  CompletionResponse(history, "Conversation complete", ai_simple_summary),
                  0, <<history>>, <<history>>, <<>>, NoOutcome, NoOutcome, held, "")
        ELSE IF chat.kind # "text"
        THEN FallThrough(history, held, chat)
        ELSE LET current_step == detect_nvc_step_with_ai(m, key, detect)
                 next_step == get_next_nvc_step(current_step)
             IN  Pass(TRUE, StepResponse(next_step, "AI-powered NVC guidance"),
                      1 + detect_with_ai_calls(key), <<history>>, <<>>, <<>>,
                      chat, detect, held, current_step)

\* The rule-based path, on the list the request holds when the path is entered.
rule_based(h, m, key, detect) ==
    LET history == Append(h, m)
        held == HeldAfterAppend(h, m)
    IN  IF should_complete_conversation(history)
        THEN Pass(TRUE,
                  CompletionResponse(history, "Conversation complete",
                                     fallback_simple_summary),
                  0, <<history>>, <<history>>, <<>>, NoOutcome, NoOutcome, held, "")
        ELSE LET current_step == detect_nvc_step_with_ai(m, key, detect)
                 next_step == get_next_nvc_step(current_step)
                 needs_request_clarification == check_request_clarification_needed(history)
             IN  Pass(TRUE,
                      StepResponse(next_step,
                                   step_guidance(needs_request_clarification, next_step)),
                      detect_with_ai_calls(key), <<history>>, <<>>, <<history>>,
                      NoOutcome,
                      IF get_openai_client(key) THEN detect ELSE NoOutcome,
                      held, current_step)

\* One pass after another within the same request.
Then(first, second) ==
    [second EXCEPT
        !.llm_calls = first.llm_calls + second.llm_calls,
        !.handed = [gate |-> first.handed.gate \o second.handed.gate,
                    extract |-> first.handed.extract \o second.handed.extract,
                    clarify |-> first.handed.clarify \o second.handed.clarify],
        !.llm.chat = first.llm.chat]

\* The handler of POST /conversation for a request with conversation_history h
\* and message m.
nvc_conversation(h, m, email, password, key, chat, detect) ==
    IF ~validate_credentials(email, password)
    THEN Pass(TRUE, Unauthorized, 0, <<>>, <<>>, <<>>, NoOutcome, NoOutcome, h, "")
    ELSE IF get_openai_client(key)
    THEN LET ai == ai_path(h, m, key, chat, detect)
         IN  IF ai.returned THEN ai
             ELSE Then(ai, rule_based(ai.request_history, m, key, detect))
    ELSE rule_based(h, m, key, detect)

-----------------------------------------------------------------------------
(* The conversation: the caller's history grows by append; the gate and    *)
(* the summary generator are applied to it.                                *)

Init ==
    /\ message = ""
    /\ detected = ""
    /\ conversation_history = <<>>
    /\ complete = FALSE
    /\ summary = NoSummary
    /\ extracted = NoContent
    /\ prompt = NoPrompt
    /\ origin = "starting"
    /\ step = "starting"
    /\ applied = 0
    /\ op = "init"
    /\ EndpointIdle

\* The caller records one more message.  A history that follows the script
\* may be extended by any message; one that has left it is not extended.
AppendMessage(m) ==
    /\ Len(conversation_history) < MaxHist
    /\ Ordered(conversation_history)
    /\ conversation_history' = Append(conversation_history, m)
    /\ complete' = FALSE
    /\ summary' = NoSummary
    /\ extracted' = NoContent
    /\ prompt' = NoPrompt
    /\ op' = "append"
    /\ UNCHANGED <<message, detected, origin, step, applied>>
    /\ UNCHANGED endpoint_vars

ShouldComplete ==
    /\ op \in {"init", "append"}
    /\ complete' = should_complete_conversation(conversation_history)
    /\ op' = "gate"
    /\ UNCHANGED <<message, detected, conversation_history, summary, extracted, prompt,
                    origin, step, applied>>
    /\ UNCHANGED endpoint_vars

GenerateSummary ==
    /\ op \in {"init", "append"}
    /\ summary' = generate_nvc_summary(conversation_history)
    /\ op' = "summary"
    /\ UNCHANGED <<message, detected, conversation_history, complete, extracted, prompt,
                    origin, step, applied>>
    /\ UNCHANGED endpoint_vars

ExtractContent ==
    /\ op \in {"init", "append"}
    /\ extracted' = extract_user_content_from_conversation(conversation_history)
    /\ op' = "extract"
    /\ UNCHANGED <<message, detected, conversation_history, complete, summary, prompt,
                    origin, step, applied>>
    /\ UNCHANGED endpoint_vars

\* get_nvc_prompt is built for a message and the conversation so far.
GetNvcPrompt(m) ==
    /\ op \in {"init", "append"}
    /\ prompt' = get_nvc_prompt(m, conversation_history)
    /\ op' = "prompt"
    /\ UNCHANGED <<message, detected, conversation_history, complete, summary, extracted,
                    origin, step, applied>>
    /\ UNCHANGED endpoint_vars

\* the message argument only fills the prompt's "User's message" line
PromptMessages == {Script[1], Filler}

NextPrompt ==
    \/ \E m \in Messages : AppendMessage(m)
    \/ \E m \in PromptMessages : GetNvcPrompt(m)

SpecPrompt == Init /\ [][NextPrompt]_vars

Next ==
    \/ \E m \in Messages : AppendMessage(m)
    \/ ShouldComplete
    \/ GenerateSummary
    \/ ExtractContent

Spec == Init /\ [][Next]_vars

-----------------------------------------------------------------------------
(* The conversation endpoint serving the turns of one conversation *)

Passwords == {"NVCRocks!", "nvcrocks!"}

Emails == {"user@example.com", "admin@example.com"}

\* The credentials a request carries: the accepted password, and a wrong
\* password under either address.
Credentials ==
    {c \in [email : Emails, password : Passwords] :
        c.password = "NVCRocks!" => c.email = "user@example.com"}

\* What the external service may do with the chat call of the AI path.
ChatOutcomes == {Raises, AnswersNone, Answers("I hear you.")}

\* What it may do with the step-detection call of a request: raise, answer a
\* valid label in another spelling, answer a label that is not valid.
TurnDetectOutcomes == {Raises, Answers(" Request\n"), Answers("complete")}

\* The environments a request is handled in: the key and the behaviour of the
\* external service for the calls the request may issue.
Environments ==
    {[key |-> k, chat |-> NoOutcome, detect |-> NoOutcome] :
        k \in {k \in ApiKeys : ~get_openai_client(k)}}
    \cup
    {[key |-> k, chat |-> c, detect |-> d] :
        k \in {k \in ApiKeys : get_openai_client(k)},
        c \in ChatOutcomes, d \in TurnDetectOutcomes}

\* Mutant: the server keeps the list of the request it handled before.
LeakedHistory ==
    IF handed.gate # <<>> THEN handed.gate[Len(handed.gate)] ELSE conversation_history

\* request.conversation_history as the handler receives it: the caller's list,
\* parsed anew from each request
ReceivedHistory == conversation_history

\* The handler runs from the check of the credentials to its answer.
Handle(m, email, password, env) ==
    \E result \in {nvc_conversation(ReceivedHistory, m, email, password,
                                     env.key, env.chat, env.detect)} :
        /\ request' = [message |-> m, email |-> email, password |-> password,
                       conversation_history |-> conversation_history]
        /\ request_history' = result.request_history
        /\ detected' = result.current_step
        /\ api_key' = env.key
        /\ llm' = result.llm
        /\ response' = result.response
        /\ llm_calls' = result.llm_calls
        /\ handed' = result.handed
        /\ UNCHANGED <<message, conversation_history, complete, summary,
                        extracted, prompt, origin, step, applied, completed>>

\* The caller sends the next message of the conversation with its history.
NvcConversation(m, email, password, env) ==
    /\ op \in {"init", "record"}
    /\ Len(conversation_history) < MaxHist
    /\ Ordered(Append(conversation_history, m))
    /\ Handle(m, email, password, env)
    /\ answered_before' = NoAnswer
    /\ op' = "send"

\* The caller sends an answered request once more; the environment may have
\* changed by then.
RetryConversation(env) ==
    /\ op = "send"
    /\ response.status = 200
    /\ Handle(request.message, request.email, request.password, env)
    /\ answered_before' =
          [sent |-> TRUE, api_key |-> api_key,
           current_step |-> response.current_step,
           conversation_complete |-> response.conversation_complete]
    /\ op' = "retry"

\* The caller takes the answered message into its history and notes whether the
\* answer was complete, and whether the message asked for completion.
RecordTurn ==
    /\ op \in {"send", "retry"}
    /\ response.status = 200
    /\ conversation_history' = Append(conversation_history, request.message)
    /\ completed' =
          IF ~response.conversation_complete THEN completed
          ELSE IF ~ExplicitCompletion(<<request.message>>) THEN "evidence"
          ELSE IF completed = "no" THEN "phrase" ELSE completed
    /\ request' = NoRequest
    /\ llm' = NoLlm
    /\ response' = NoResponse
    /\ llm_calls' = 0
    /\ handed' = NoHanded
    /\ answered_before' = NoAnswer
    /\ request_history' = <<>>
    /\ detected' = ""
    /\ op' = "record"
    /\ UNCHANGED <<message, complete, summary, extracted, prompt, origin, step, applied,
                    api_key>>

NextEndpoint ==
    \/ \E m \in Messages, credentials \in Credentials, env \in Environments :
          NvcConversation(m, credentials.email, credentials.password, env)
    \/ \E env \in Environments : RetryConversation(env)
    \/ RecordTurn

SpecEndpoint == Init /\ [][NextEndpoint]_vars

-----------------------------------------------------------------------------
(* The classifier applied to single messages *)

InitClassify ==
    /\ message \in MessageInputs
    /\ detected = ""
    /\ conversation_history = <<>>
    /\ complete = FALSE
    /\ summary = NoSummary
    /\ extracted = NoContent
    /\ prompt = NoPrompt
    /\ origin = "starting"
    /\ step = "starting"
    /\ applied = 0
    /\ op = "init"
    /\ EndpointIdle

DetectStep ==
    /\ op = "init"
    /\ detected' = detect_current_nvc_step(message)
    /\ op' = "detect"
    /\ UNCHANGED <<message, conversation_history, complete, summary, extracted, prompt,
                    origin, step, applied>>
    /\ UNCHANGED endpoint_vars

NextClassify == DetectStep

SpecClassify == InitClassify /\ [][NextClassify]_vars

-----------------------------------------------------------------------------
(* The AI-assisted classifier applied to single messages *)

InitDetectAI ==
    /\ message \in Messages
    /\ detected = ""
    /\ conversation_history = <<>>
    /\ complete = FALSE
    /\ summary = NoSummary
    /\ extracted = NoContent
    /\ prompt = NoPrompt
    /\ origin = "starting"
    /\ step = "starting"
    /\ applied = 0
    /\ op = "init"
    /\ api_key \in ApiKeys
    /\ request = NoRequest
    /\ llm \in {[NoLlm EXCEPT !.detect = o] : o \in DetectOutcomes}
    /\ response = NoResponse
    /\ llm_calls = 0
    /\ handed = NoHanded
    /\ completed = "no"
    /\ answered_before = NoAnswer
    /\ request_history = <<>>

DetectStepWithAI ==
    /\ op = "init"
    /\ detected' = detect_nvc_step_with_ai(message, api_key, llm.detect)
    /\ llm_calls' = llm_calls + detect_with_ai_calls(api_key)
    /\ op' = "detect_ai"
    /\ UNCHANGED <<message, conversation_history, complete, summary, extracted, prompt,
                    origin, step, applied, api_key, request, llm, response, handed,
                    completed, answered_before, request_history>>

NextDetectAI == DetectStepWithAI

SpecDetectAI == InitDetectAI /\ [][NextDetectAI]_vars

-----------------------------------------------------------------------------
(* ai_should_complete_conversation on its own: histories on both sides of the
   eight-message threshold and of the gate, every kind of external answer *)

\* a conversation that names the four steps in its first four messages
Evidence == SubSeq(Script, 1, 4) \o [i \in 1..(MaxHist - 4) |-> Filler]

Fillers == [i \in 1..MaxHist |-> Filler]

GateHistories ==
    {SubSeq(Evidence, 1, n) : n \in 0..MaxHist}
        \cup {SubSeq(Fillers, 1, n) : n \in 0..MaxHist}
        \cup {Append(SubSeq(Evidence, 1, n), Script[6]) : n \in 0..(MaxHist - 1)}
        \cup {Append(SubSeq(Fillers, 1, n), Script[6]) : n \in 0..(MaxHist - 1)}

CompletionOutcomes ==
    {Raises, AnswersNone}
        \cup {Answers(t) : t \in {"true", "false", " True\n", "FALSE", "yes", "true.", ""}}

InitAiGate ==
    /\ message = ""
    /\ detected = ""
    /\ conversation_history \in GateHistories
    /\ complete = FALSE
    /\ summary = NoSummary
    /\ extracted = NoContent
    /\ prompt = NoPrompt
    /\ origin = "starting"
    /\ step = "starting"
    /\ applied = 0
    /\ op = "init"
    /\ api_key \in ApiKeys
    /\ request = NoRequest
    /\ llm \in {[NoLlm EXCEPT !.completion = o] : o \in CompletionOutcomes}
    /\ response = NoResponse
    /\ llm_calls = 0
    /\ handed = NoHanded
    /\ completed = "no"
    /\ answered_before = NoAnswer
    /\ request_history = <<>>

AiShouldComplete ==
    /\ op = "init"
    /\ complete' = ai_should_complete_conversation(conversation_history, api_key,
                                                    llm.completion)
    /\ llm_calls' = llm_calls + ai_should_complete_calls(conversation_history, api_key)
    /\ op' = "ai_gate"
    /\ UNCHANGED <<message, detected, conversation_history, summary, extracted, prompt,
                    origin, step, applied, api_key, request, llm, response, handed,
                    completed, answered_before, request_history>>

NextAiGate == AiShouldComplete

SpecAiGate == InitAiGate /\ [][NextAiGate]_vars

-----------------------------------------------------------------------------
(* The sequencer applied repeatedly, from any label *)

InitSequencer ==
    /\ message = ""
    /\ detected = ""
    /\ conversation_history = <<>>
    /\ complete = FALSE
    /\ summary = NoSummary
    /\ extracted = NoContent
    /\ prompt = NoPrompt
    /\ origin \in StepInputs
    /\ step = origin
    /\ applied = 0
    /\ op = "init"
    /\ EndpointIdle

NextStep ==
    /\ applied < MaxApply
    /\ step' = get_next_nvc_step(step)
    /\ applied' = applied + 1
    /\ op' = "next"
    /\ UNCHANGED <<message, detected, conversation_history, complete, summary, extracted, prompt,
                    origin>>
    /\ UNCHANGED endpoint_vars

NextSequencer == NextStep

SpecSequencer == InitSequencer /\ [][NextSequencer]_vars

-----------------------------------------------------------------------------
(* Properties of the classifier (SpecClassify) *)

Stages == {"observation", "feeling", "need", "request"}

StageOrder(stage) ==
    CASE stage = "observation" -> 1
      [] stage = "feeling" -> 2
      [] stage = "need" -> 3
      [] stage = "request" -> 4

Vocabulary(stage) ==
    CASE stage = "observation" -> observation_words
      [] stage = "feeling" -> feeling_words
      [] stage = "need" -> need_words
      [] stage = "request" -> request_words

\* how many keywords of the stage's vocabulary occur in the lowercased message
Hits(stage, m) ==
    Cardinality({i \in 1..Len(Vocabulary(stage)) : Contains(Lower(m), Vocabulary(stage)[i])})

SomeHit(m) == \E stage \in Stages : Hits(stage, m) > 0

\* C1: for a message with at least one keyword hit the classifier returns the
\* stage with the highest hit count, and among the stages sharing the highest
\* count the earliest of observation, feeling, need, request.
C1_HighestCountEarliestWins ==
    (op = "detect" /\ SomeHit(message)) =>
        /\ detected \in Stages
        /\ \A stage \in Stages : Hits(stage, message) <= Hits(detected, message)
        /\ \A stage \in Stages :
              Hits(stage, message) = Hits(detected, message)
                  => StageOrder(detected) <= StageOrder(stage)

\* a classified message whose highest count is shared by two stages
C1_Witness ==
    /\ op = "detect"
    /\ \E a, b \in Stages :
          /\ a # b
          /\ Hits(a, message) > 0
          /\ Hits(a, message) = Hits(b, message)
          /\ \A stage \in Stages : Hits(stage, message) <= Hits(a, message)
          /\ detected = a

C3_OnlyFeelingHits ==
    (/\ op = "detect"
     /\ Hits("feeling", message) > 0
     /\ \A stage \in Stages \ {"feeling"} : Hits(stage, message) = 0)
        => detected = "feeling"

\* a classified message with feeling hits only
C3_Witness ==
    /\ op = "detect"
    /\ Hits("feeling", message) > 0
    /\ \A stage \in Stages \ {"feeling"} : Hits(stage, message) = 0
    /\ detected = "feeling"

-----------------------------------------------------------------------------
(* Properties of the sequencer (SpecSequencer) *)

Progression == <<"starting", "observation", "feeling", "need", "request">>

InProgression(label) == \E i \in 1..Len(Progression) : Progression[i] = label

Rank(label) == CHOOSE i \in 1..Len(Progression) : Progression[i] = label

\* the stage reached after n applications from "starting"
AfterApplications(n) == Progression[IF n < 4 THEN n + 1 ELSE 5]

\* C4: the sequencer follows starting -> observation -> feeling -> need ->
\* request -> request: four applications from "starting" reach "request",
\* further ones stay there, and no application moves to an earlier stage.
C4_FixedProgression ==
    /\ [](origin = "starting" => step = AfterApplications(applied))
    /\ [][InProgression(step) =>
            /\ InProgression(step')
            /\ Rank(step') >= Rank(step)
            /\ Rank(step') <= Rank(step) + 1]_vars

\* a fifth application from "starting" has stayed at "request"
C4_Witness == origin = "starting" /\ applied = 5 /\ step = "request" /\ op = "next"

\* C5: one application to a label outside starting, observation, feeling,
\* need, request yields "request".
C5_UnknownMapsToRequest ==
    (~InProgression(origin) /\ applied = 1) => step = "request"

\* "complete" after one application
C5_Witness == origin = "complete" /\ applied = 1 /\ step = "request" /\ op = "next"

-----------------------------------------------------------------------------
(* Properties of the completion gate (Spec) *)

\* the last message contains, lowercased, a phrase of the completion list
LastHasCompletionPhrase(history) ==
    /\ Len(history) > 0
    /\ \E i \in 1..Len(completion_phrases) :
          Contains(Lower(history[Len(history)]), completion_phrases[i])

\* some message before the last contains a completion phrase
EarlierHasCompletionPhrase(history) ==
    \E j \in 1..(Len(history) - 1) :
        \E i \in 1..Len(completion_phrases) :
            Contains(Lower(history[j]), completion_phrases[i])

\* the words of a list that occur in the text
Present(words, text) == {words[i] : i \in {j \in 1..Len(words) : Contains(text, words[j])}}

ObservationPresent(history) == Present(gate_observation_words, Lower(Join(history))) # {}
FeelingPresent(history) == Present(gate_feeling_words, Lower(Join(history))) # {}
NeedPresent(history) == Present(gate_need_words, Lower(Join(history))) # {}
ActionableRequestPresent(history) ==
    Present(specific_request_phrases, Lower(Join(history))) # {}
DepthSatisfied(history) ==
    /\ Cardinality(Present(feeling_count_words, Lower(Join(history)))) >= 2
    /\ Cardinality(Present(need_count_words, Lower(Join(history)))) >= 2

EvidenceComplete(history) ==
    /\ ObservationPresent(history)
    /\ FeelingPresent(history)
    /\ NeedPresent(history)
    /\ ActionableRequestPresent(history)
    /\ DepthSatisfied(history)

\* keywords of all four classifier vocabularies occur in the history
AllStagesMentioned(history) == \A stage \in Stages : Hits(stage, Join(history)) > 0

\* C6: the gate returns false for every history of fewer than 10 messages
\* whose last message holds no completion phrase, whatever evidence it holds.
C6_BelowThresholdNeverCompletes ==
    (/\ op = "gate"
     /\ Len(conversation_history) < 10
     /\ ~LastHasCompletionPhrase(conversation_history))
        => complete = FALSE

\* a short history with all the evidence, refused
C6_Witness ==
    /\ op = "gate"
    /\ Len(conversation_history) < 10
    /\ ~LastHasCompletionPhrase(conversation_history)
    /\ AllStagesMentioned(conversation_history)
    /\ EvidenceComplete(conversation_history)
    /\ complete = FALSE

\* C7: the gate returns true whenever the last message holds a completion
\* phrase, whatever precedes it; a phrase held only by an earlier message
\* does not complete the conversation by itself.
C7_PhraseInLastMessageCompletes ==
    op = "gate" =>
        /\ LastHasCompletionPhrase(conversation_history) => complete = TRUE
        /\ (/\ EarlierHasCompletionPhrase(conversation_history)
            /\ ~LastHasCompletionPhrase(conversation_history))
               => (complete = TRUE <=>
                      /\ Len(conversation_history) >= 10
                      /\ EvidenceComplete(conversation_history))

\* a short history without the evidence, completed by its last message
C7_Witness ==
    /\ op = "gate"
    /\ Len(conversation_history) \in 2..9
    /\ ~EvidenceComplete(conversation_history)
    /\ ~EarlierHasCompletionPhrase(conversation_history)
    /\ LastHasCompletionPhrase(conversation_history)
    /\ complete = TRUE

\* C8: without a completion phrase in the last message the gate returns true
\* only if the concatenated history holds an observation keyword, a feeling
\* keyword, a need keyword, an actionable request phrase, and at least two
\* distinct feeling words and two distinct need words.
C8_CompletionRequiresAllEvidence ==
    (/\ op = "gate"
     /\ ~LastHasCompletionPhrase(conversation_history)
     /\ complete = TRUE)
        => /\ ObservationPresent(conversation_history)
           /\ FeelingPresent(conversation_history)
           /\ NeedPresent(conversation_history)
           /\ ActionableRequestPresent(conversation_history)
           /\ DepthSatisfied(conversation_history)

\* a history completed on its evidence alone
C8_Witness ==
    /\ op = "gate"
    /\ ~LastHasCompletionPhrase(conversation_history)
    /\ complete = TRUE
    /\ DepthSatisfied(conversation_history)

-----------------------------------------------------------------------------
(* Properties of the summary generator (Spec) *)

\* the entries of the history that the extractor scans: indices 0, 2, 4, ...
ScannedMessages(history) == {history[i] : i \in {j \in 1..Len(history) : j % 2 = 1}}

\* no scanned message holds a word of the list
NoScannedMatch(words, history) ==
    \A m \in ScannedMessages(history) : Present(words, Lower(m)) = {}

\* C10: summary generation does not fail, leaves no stage text empty, and
\* gives the fallback phrase for every stage that no scanned message matches.
C10_FallbackForUnmatchedStage ==
    op = "summary" =>
        /\ summary.raised = ""
        /\ summary.observation_text # "" /\ summary.feeling_text # ""
        /\ summary.need_text # "" /\ summary.request_text # ""
        /\ NoScannedMatch(extract_observation_words, conversation_history)
              => summary.observation_text = "the situation that occurred"
        /\ NoScannedMatch(extract_feeling_words, conversation_history)
              => summary.feeling_text = "I feel concerned"
        /\ NoScannedMatch(extract_need_words, conversation_history)
              => summary.need_text = "I need understanding"
        /\ NoScannedMatch(extract_request_phrases, conversation_history)
              => summary.request_text = "Would you be willing to work with me on this"

-----------------------------------------------------------------------------
(* Properties of the extractor (Spec) *)

\* the entries of the history at indices 0, 2, 4, ... that hold a word of
\* the list, in history order
RECURSIVE EvenIndexedMatches(_, _, _)
EvenIndexedMatches(history, words, i) ==
    IF i > Len(history) THEN <<>>
    ELSE (IF i % 2 = 1 /\ Present(words, Lower(history[i])) # {}
          THEN <<history[i]>> ELSE <<>>)
         \o EvenIndexedMatches(history, words, i + 1)

\* C11: the extractor returns, for each category, exactly the even-indexed
\* entries of the history that hold a keyword of the category, in history
\* order.
C11_EvenIndexedMatchesInOrder ==
    op = "extract" =>
        /\ extracted.raised = ""
        /\ extracted.observations =
              EvenIndexedMatches(conversation_history, extract_observation_words, 1)
        /\ extracted.feelings =
              EvenIndexedMatches(conversation_history, extract_feeling_words, 1)
        /\ extracted.needs =
              EvenIndexedMatches(conversation_history, extract_need_words, 1)
        /\ extracted.requests =
              EvenIndexedMatches(conversation_history, extract_request_phrases, 1)

-----------------------------------------------------------------------------
(* Properties of the AI-assisted classifier (SpecDetectAI) *)

ClientConfigured == api_key # "" /\ api_key # "your_openai_api_key_here"

\* the external label, trimmed and lowercased
TrimmedLower(text) == Lower(Strip(text))

\* the external service answered with a label that is one of the four stages
ValidLabelAnswered ==
    /\ ClientConfigured
    /\ llm.detect.kind = "text"
    /\ TrimmedLower(llm.detect.content) \in Stages

\* C13: detect_nvc_step_with_ai returns the external label only when the
\* label, trimmed and lowercased, is one of the four stages; without a
\* client, when the call raises, and for any other label it returns the
\* keyword classifier's result for the message.
C13_ExternalLabelOnlyWhenValid ==
    op = "detect_ai" =>
        /\ ValidLabelAnswered => detected = TrimmedLower(llm.detect.content)
        /\ ~ValidLabelAnswered => detected = detect_current_nvc_step(message)

\* a label accepted only after trimming and lowercasing, against the keywords
C13_Witness ==
    /\ op = "detect_ai"
    /\ ValidLabelAnswered
    /\ llm.detect.content # TrimmedLower(llm.detect.content)
    /\ detected = TrimmedLower(llm.detect.content)
    /\ detected # detect_current_nvc_step(message)

-----------------------------------------------------------------------------
(* Properties of the conversation endpoint (SpecEndpoint) *)

\* the endpoint has answered the request with a ConversationResponse
Answered == op \in {"send", "retry"} /\ response.status = 200

Authenticated == request.password = "NVCRocks!"

\* the client's history followed by the request message, once
SentOnce == Append(request.conversation_history, request.message)

\* the first scanned message that matches the category, else the fallback
FirstMatchOr(words, history, fallback) ==
    LET matches == EvenIndexedMatches(history, words, 1)
    IN  IF matches = <<>> THEN fallback ELSE matches[1]

\* C12: a response with conversation_complete = true carries the templated
\* summary, filled for each category with the first matching scanned message
\* of the history, or with the fallback phrase when there is none.
C12_CompleteCarriesTemplatedSummary ==
    Answered /\ response.conversation_complete =>
        /\ response.nvc_summary.kind = "templated"
        /\ response.nvc_summary.parts.observation_text =
              FirstMatchOr(extract_observation_words, SentOnce,
                           "the situation that occurred")
        /\ response.nvc_summary.parts.feeling_text =
              FirstMatchOr(extract_feeling_words, SentOnce, "I feel concerned")
        /\ response.nvc_summary.parts.need_text =
              FirstMatchOr(extract_need_words, SentOnce, "I need understanding")
        /\ response.nvc_summary.parts.request_text =
              FirstMatchOr(extract_request_phrases, SentOnce,
                           "Would you be willing to work with me on this")

\* C14: every request with the accepted password ends with a
\* ConversationResponse (status 200), whatever the client and the external
\* service do and although summary generation raises.
C14_AuthenticatedAlwaysAnswered ==
    op \in {"send", "retry"} /\ Authenticated => response.status = 200

\* the chat call failed, the step-detection call failed after it, and the
\* request was answered by the rule-based path
C14_Witness ==
    /\ Answered
    /\ Authenticated
    /\ ClientConfigured
    /\ llm.chat.kind \in {"raise", "none"}
    /\ llm.detect.kind = "raise"
    /\ ~response.conversation_complete
    /\ response.current_step \in Stages

\* a completed request answered although summary generation raised
C14_WitnessSummaryRaises ==
    /\ Answered
    /\ response.conversation_complete
    /\ handed.extract # <<>>
    /\ response.nvc_summary.kind = "simple"

\* C15 as stated: at most one external request per conversation request.
C15_AtMostOneExternalRequest ==
    op \in {"send", "retry"} => llm_calls <= 1

\* C15, amended: at most two external requests per conversation request: the
\* chat call of the AI path, and one step-detection call.
C15_AtMostTwoExternalRequests ==
    op \in {"send", "retry"} =>
        /\ llm_calls <= 2
        /\ ~ClientConfigured => llm_calls = 0
        /\ llm_calls = (IF llm.chat.kind # "unused" THEN 1 ELSE 0)
                       + (IF llm.detect.kind # "unused" THEN 1 ELSE 0)

\* two external requests in one request whose chat call failed
C15_Witness ==
    /\ Answered
    /\ llm_calls = 2
    /\ llm.chat.kind = "raise"
    /\ llm.detect.kind # "unused"

\* every external request of the request was issued and raised
EveryExternalCallFailed ==
    /\ ClientConfigured
    /\ llm_calls > 0
    /\ llm.chat.kind \in {"raise", "unused"}
    /\ llm.detect.kind \in {"raise", "unused"}

\* the answer to the same request when no client is configured
ClientlessAnswer ==
    nvc_conversation(request.conversation_history, request.message, request.email,
                     request.password, "", NoOutcome, NoOutcome).response

\* C16: when every external request of a request fails, current_step and
\* conversation_complete are those returned for the same message and history
\* when no client is configured.
C16_FailedCallsAnswerAsClientless ==
    Answered /\ EveryExternalCallFailed =>
        /\ response.current_step = ClientlessAnswer.current_step
        /\ response.conversation_complete = ClientlessAnswer.conversation_complete

\* the request was sent before and both times no client was configured
ClientlessTwice ==
    /\ op = "retry"
    /\ answered_before.sent
    /\ ~get_openai_client(answered_before.api_key)
    /\ ~ClientConfigured

C19_MessageAppendedOnce ==
    Answered =>
        /\ \A i \in 1..Len(handed.gate) : handed.gate[i] = SentOnce
        /\ \A i \in 1..Len(handed.extract) : handed.extract[i] = SentOnce
        /\ \A i \in 1..Len(handed.clarify) : handed.clarify[i] = SentOnce

\* C20: no external request was issued in a request answered complete.
C20_NoExternalRequestWhenComplete ==
    Answered /\ response.conversation_complete => llm_calls = 0

\* C21: a request whose password is not the accepted one is rejected with 401,
\* whatever its message, history and email; no list was handed to the gate,
\* the extractor or the clarification check, no stage was detected, the
\* request's history is as it was sent, and no external request was issued.
C21_WrongPasswordRejectedFirst ==
    op \in {"send", "retry"} /\ ~Authenticated =>
        /\ response = Unauthorized
        /\ handed = NoHanded
        /\ detected = ""
        /\ request_history = request.conversation_history
        /\ llm_calls = 0
        /\ llm = NoLlm

\* a rejected request that would have completed, with a client configured
C21_Witness ==
    /\ op = "send"
    /\ ~Authenticated
    /\ request.email = "admin@example.com"
    /\ ClientConfigured
    /\ request.conversation_history # <<>>
    /\ ExplicitCompletion(<<request.message>>)
    /\ response.status = 401

\* C22: with no client configured no external request is issued, and a
\* response the gate did not complete names the sequencer's successor of the
\* keyword classifier's stage for the message.
C22_ClientlessIsRuleBased ==
    Answered /\ ~ClientConfigured =>
        /\ llm_calls = 0
        /\ llm = NoLlm
        /\ ~response.conversation_complete =>
              response.current_step =
                  get_next_nvc_step(detect_current_nvc_step(request.message))

\* the placeholder key, late in a conversation, answered with a next step
C22_Witness ==
    /\ Answered
    /\ api_key = "your_openai_api_key_here"
    /\ Len(request.conversation_history) >= 3
    /\ ~response.conversation_complete
    /\ response.current_step = "need"

\* C23: in every response, conversation_complete, current_step = "complete"
\* and a summary that is not null hold together or not at all; with them
\* both option lists are empty, without them both are non-empty.
C23_CompleteFieldsAgree ==
    Answered =>
        /\ response.conversation_complete <=> response.current_step = "complete"
        /\ response.conversation_complete <=> response.nvc_summary.kind # "none"
        /\ response.conversation_complete =>
              /\ response.suggested_responses = <<>>
              /\ response.vocabulary_options = <<>>
        /\ ~response.conversation_complete =>
              /\ response.suggested_responses # <<>>
              /\ response.vocabulary_options # <<>>

\* a response of the request step, with its options
C23_Witness ==
    /\ Answered
    /\ ~response.conversation_complete
    /\ response.current_step = "request"
    /\ response.nvc_summary.kind = "none"
    /\ Len(response.suggested_responses) = 3
    /\ Len(response.vocabulary_options) = 6

\* a complete response, with its summary and no options
C23_WitnessComplete ==
    /\ Answered
    /\ response.conversation_complete
    /\ response.current_step = "complete"
    /\ response.nvc_summary.kind # "none"
    /\ response.suggested_responses = <<>>

\* the stage after a stage of the progression, the last one staying
Successor(label) == Progression[IF Rank(label) < 5 THEN Rank(label) + 1 ELSE 5]

\* C24: in every response that is not complete, current_step is the stage
\* after the detected one: one of the four stages, never "starting",
\* "observation" only when "starting" was detected, and "request" when
\* "request" was detected.
C24_CurrentStepIsSuccessor ==
    Answered /\ ~response.conversation_complete =>
        /\ InProgression(detected)
        /\ response.current_step = Successor(detected)
        /\ response.current_step \in Stages
        /\ response.current_step = "observation" => detected = "starting"
        /\ detected = "request" => response.current_step = "request"

\* the external label "request" against a message without keywords: the
\* answer names the request step
C24_Witness ==
    /\ Answered
    /\ ~response.conversation_complete
    /\ detect_current_nvc_step(request.message) = "starting"
    /\ detected = "request"
    /\ response.current_step = "request"

\* nothing detected: the answer names the observation step
C24_WitnessStarting ==
    /\ Answered
    /\ ~response.conversation_complete
    /\ detected = "starting"
    /\ response.current_step = "observation"

\* the response is the request-refinement prompt
RefinementReturned ==
    response.guidance = "Refining your request - making it specific and considerate."

\* the last three messages of a history, joined and lowercased
RecentText(history) ==
    Lower(Join(SubSeq(history, IF Len(history) > 3 THEN Len(history) - 2 ELSE 1,
                      Len(history))))

-----------------------------------------------------------------------------
(* The completion gate under append (Spec) *)

\* the first k messages of the history
Earlier(k) == SubSeq(conversation_history, 1, k)

\* the gate completes the first k messages, at least 10, on their keyword
\* evidence: the last of them holds no completion phrase
CompletedOnEvidence(k) ==
    /\ k >= 10
    /\ ~LastHasCompletionPhrase(Earlier(k))
    /\ should_complete_conversation(Earlier(k))

\* C25: a history that the gate completes on keyword evidence stays completed
\* under every append: the gate's answer for the history is true whenever it
\* is true, on evidence, for a shorter beginning of it.
C25_EvidencePathMonotone ==
    op = "gate" =>
        \A k \in 1..(Len(conversation_history) - 1) :
            CompletedOnEvidence(k) => complete

\* ten messages completed on evidence, then one more without completion
\* phrase and without keyword of the evidence: still completed
C25_Witness ==
    /\ op = "gate"
    /\ Len(conversation_history) = 11
    /\ CompletedOnEvidence(10)
    /\ conversation_history[11] = Filler
    /\ complete

-----------------------------------------------------------------------------
(* The external completion opinion (SpecAiGate) *)

\* the external answer as the code compares it: trimmed, then lowercased
CompletionAnswer == Lower(Strip(llm.completion.content))

WellFormedAnswer ==
    /\ get_openai_client(api_key)
    /\ Len(conversation_history) >= 8
    /\ llm.completion.kind = "text"
    /\ CompletionAnswer \in {"true", "false"}

\* C26: ai_should_complete_conversation returns the external answer only for a
\* history of at least eight messages, with a client, whose external call
\* answers true or false (after trimming and lowercasing); without a client,
\* below eight messages, when the call raises or answers anything else, it
\* returns exactly should_complete_conversation(history); the external call is
\* made only in the first case or when it fails there.
C26_AiGateFallsBackToGate ==
    op = "ai_gate" =>
        /\ WellFormedAnswer => complete = (CompletionAnswer = "true")
        /\ ~WellFormedAnswer =>
               complete = should_complete_conversation(conversation_history)
        /\ llm_calls = IF get_openai_client(api_key) /\ Len(conversation_history) >= 8
                       THEN 1 ELSE 0

\* the external answer, not yet normalised, overrides the gate
C26_Witness ==
    /\ op = "ai_gate"
    /\ WellFormedAnswer
    /\ llm.completion.content # CompletionAnswer
    /\ complete # should_complete_conversation(conversation_history)

\* a short history keeps the gate's answer against a well-formed external one
C26_WitnessShort ==
    /\ op = "ai_gate"
    /\ get_openai_client(api_key)
    /\ Len(conversation_history) < 8
    /\ llm.completion = Answers("false")
    /\ complete

\* a raising call on a long history is answered by the gate
C26_WitnessRaises ==
    /\ op = "ai_gate"
    /\ get_openai_client(api_key)
    /\ Len(conversation_history) >= 10
    /\ llm.completion = Raises
    /\ llm_calls = 1
    /\ complete

-----------------------------------------------------------------------------
(* The prompt's progress note and directive (SpecPrompt) *)

PromptSteps == {"observation", "feeling", "need", "request"}

\* the directive names s as the next uncovered step
NamedAsNext(s) ==
    prompt.directive = "Focus on moving to the next uncovered step: " \o s \o "."

\* the progress note lists s among the steps covered so far
ListedAsCovered(s) == Contains(prompt.progress_note, s)

\* C28: in a prompt built for a history of more than one message with fewer
\* than three steps covered, the step the directive names as the next uncovered
\* step is not among the steps the progress note lists as covered.
C28_NamedStepIsUncovered ==
    (/\ op = "prompt"
     /\ Len(conversation_history) > 1
     /\ Len(steps_covered(conversation_history)) < 3)
        => \A s \in PromptSteps : NamedAsNext(s) => ~ListedAsCovered(s)

\* the directive names the first uncovered step when the covered steps are a
\* prefix of the sequence
C28_PrefixNamesFirstUncovered ==
    /\ op = "prompt"
    /\ steps_covered(conversation_history) = <<"observation">>
    /\ NamedAsNext("feeling")
====
